---- MODULE Spec2Model ----
(***************************************************************************)
(* A model of the type/IR core of slither-certik: the using-for merge      *)
(* (slither/utils/using_for.py), the SlithIR temporary variables           *)
(* (slither/slithir/variables/temporary.py), the Push operation and its    *)
(* storage classification (slither/slithir/operations/push.py), the        *)
(* Call / EventCall operations (slither/slithir/operations/call.py,        *)
(* event_call.py), and the Typename type with the default-value synthesis  *)
(* (slither/core/solidity_types/typename_type.py,                          *)
(* slither/solc_parsing/default_values.py).  Each component has its own    *)
(* specification; the variables of the other components stay at their      *)
(* idle values.                                                            *)
(***************************************************************************)
EXTENDS Integers, Sequences, FiniteSets, TLC

VARIABLES
    uf1,        \* using_for.py: first argument of the pending merge_using_for call
    uf2,        \* using_for.py: second argument of the pending call
    ufCall,     \* which call was made: "none", "merge" (uf1, uf2) or "self" (uf1, uf1)
    ufResult,   \* the table the call returned (the empty dict before the call)
    counter,    \* temporary.py: counter_slithir_temporary of each compilation unit
    start,      \* the value each unit's counter had before the first construction
    temps,      \* the TemporaryVariable objects, in the order of their construction
    tempArg,    \* the index argument of the last constructor call (<<>> for None)
    irVar,      \* push.py: the variable handed to _is_storage_variable / to Push as array
    pcPush,     \* "start", "classified", "constructed", "queried" or "AssertionError"
    isStorage,  \* what _is_storage_variable(irVar) returned
    pushOp,     \* the Push operation constructed (NoPush before)
    pushObs,    \* the values of the properties read, storage and type of pushOp
    pushArgs,   \* the arguments of the last Push(...) call, whether or not it failed
    callOp,     \* call.py, event_call.py: the Call or EventCall object (NoCall before)
    pcCall,     \* "start", "constructed" or "AssertionError"
    callObs,    \* the last can_reenter(callstack) / can_send_eth() answers of callOp
    callRead,   \* the last value of callOp.read (an EventCall)
    tyArg,      \* typename_type.py, default_values.py: the Type the call is made on
    tyCall,     \* "none", "get_default_value", "storage_size" or "is_dynamic"
    pcType,     \* "start", "returned" or "AssertionError"
    tyResult,   \* the Expression the call returned (NoExpression when none)
    tyStack,    \* the types get_default_value has still to be called on
    ufHeap,     \* using_for.py: the dict and list objects, by address
    ufHeapBefore, \* the objects as they were when merge_using_for was called
    ufRefs,     \* <<>>, or <<uf1, uf2, result>>: addresses of the call's dicts
    ctor        \* temporary.py: the constructor calls in progress, step by step

varsUsingFor == <<uf1, uf2, ufCall, ufResult>>
varsTemporary == <<counter, start, temps, tempArg>>
varsPush == <<irVar, pcPush, isStorage, pushOp, pushObs, pushArgs>>
varsCall == <<callOp, pcCall, callObs, callRead>>
varsType == <<tyArg, tyCall, pcType, tyResult, tyStack>>
varsHeap == <<ufHeap, ufHeapBefore, ufRefs>>
varsCtor == <<ctor>>
vars == <<varsUsingFor, varsTemporary, varsPush, varsCall, varsType, varsHeap, varsCtor>>

\* What a specification leaves alone: the state of the other components.
OthersThanUsingFor == <<varsHeap, varsCtor, varsTemporary, varsPush, varsCall, varsType>>
OthersThanTemporary == <<varsHeap, varsCtor, varsUsingFor, varsPush, varsCall, varsType>>
OthersThanPush == <<varsHeap, varsCtor, varsUsingFor, varsTemporary, varsCall, varsType>>
OthersThanCall == <<varsHeap, varsCtor, varsUsingFor, varsTemporary, varsPush, varsType>>
OthersThanType == <<varsHeap, varsCtor, varsUsingFor, varsTemporary, varsPush, varsCall>>
OthersThanHeap == <<varsUsingFor, varsTemporary, varsPush, varsCall, varsType, varsCtor>>
OthersThanCtor == <<varsUsingFor, varsPush, varsCall, varsType, varsHeap>>

\* The idle state of a component, in the specifications of the others: no
\* merge_using_for call is under way; no unit, counter or temporary exists.
IdleUsingFor == uf1 = <<>> /\ uf2 = <<>> /\ ufCall = "idle" /\ ufResult = <<>>
IdleTemporary == counter = <<>> /\ start = <<>> /\ temps = <<>> /\ tempArg = <<>>
IdlePush ==
    /\ irVar = <<>> /\ pcPush = "idle" /\ isStorage = FALSE
    /\ pushOp = <<>> /\ pushObs = <<>> /\ pushArgs = <<>>
IdleCall == callOp = <<>> /\ pcCall = "idle" /\ callObs = <<>> /\ callRead = <<>>
IdleType ==
    /\ tyArg = <<>> /\ tyCall = "idle" /\ pcType = "idle" /\ tyResult = <<>>
    /\ tyStack = <<>>
IdleHeap == ufHeap = <<>> /\ ufHeapBefore = <<>> /\ ufRefs = <<>>
IdleCtor == ctor = <<>>

\* The value None of Python.
None == "None"

(***************************************************************************)
(* slither/utils/using_for.py                                              *)
(***************************************************************************)

\* Longest attachment list of an input table.
MaxLen == 2

\* USING_FOR_KEY: the wildcard "*" or a Type.
UsingForKeys == {"*", "uint256"}

\* Members of a USING_FOR_ITEM list: libraries and free functions.
UsingForTargets == {"LibA", "f"}

\* USING_FOR_ITEM: a list of attachment targets.
UsingForItems == UNION {[1..n -> UsingForTargets] : n \in 0..MaxLen}

\* USING_FOR: a dict from keys to attachment lists.
UsingFor == UNION {[D -> UsingForItems] : D \in SUBSET UsingForKeys}

\* {**a, **b}: the keys of both, b's value where b has the key.
DictUnion(a, b) ==
    [k \in (DOMAIN a) \cup (DOMAIN b) |-> IF k \in DOMAIN b THEN b[k] ELSE a[k]]

\* merge_using_for with the operands of the concatenation swapped.
MergeUsingForFirstOperandFirst(a, b) ==
    LET result == DictUnion(a, b)
    IN  [key \in DOMAIN result |->
            IF key \in DOMAIN a /\ key \in DOMAIN b
            THEN a[key] \o result[key]
            ELSE result[key]]

\* merge_using_for without the dict union: only the second table's keys.
MergeUsingForSecondOnly(a, b) ==
    [key \in DOMAIN b |->
        IF key \in DOMAIN a THEN b[key] \o a[key] ELSE b[key]]

\* merge_using_for that skips targets already in the list.
RECURSIVE AppendNew(_, _)
AppendNew(s, t) ==
    IF t = <<>> THEN s
    ELSE IF \E i \in 1..Len(s) : s[i] = Head(t)
         THEN AppendNew(s, Tail(t))
         ELSE AppendNew(Append(s, Head(t)), Tail(t))

MergeUsingForDedup(a, b) ==
    LET result == DictUnion(a, b)
    IN  [key \in DOMAIN result |->
            IF key \in DOMAIN a /\ key \in DOMAIN b
            THEN AppendNew(result[key], a[key])
            ELSE result[key]]

\* merge_using_for(uf1, uf2): result = {**uf1, **uf2}; then every key of both
\* gets value + uf1[key], value being the entry of the union (uf2's list).  The
\* loop visits each key once and writes only that key, so the iterations are
\* independent of their order.
MergeUsingFor(a, b) ==
    LET result == DictUnion(a, b)
    IN  [key \in DOMAIN result |->
            IF key \in DOMAIN a /\ key \in DOMAIN b
            THEN result[key] \o a[key]
            ELSE result[key]]

InitUsingFor ==
    /\ uf1 \in UsingFor
    /\ uf2 \in UsingFor
    /\ ufCall = "none"
    /\ ufResult = <<>>
    /\ IdleTemporary /\ IdlePush /\ IdleCall /\ IdleType /\ IdleHeap /\ IdleCtor

\* result = merge_using_for(uf1, uf2)
Merge ==
    /\ ufCall = "none"
    /\ ufResult' = MergeUsingFor(uf1, uf2)
    /\ ufCall' = "merge"
    /\ UNCHANGED <<uf1, uf2>>
    /\ UNCHANGED OthersThanUsingFor

\* result = merge_using_for(uf1, uf1): a table merged with itself
MergeSelf ==
    /\ ufCall = "none"
    /\ ufResult' = MergeUsingFor(uf1, uf1)
    /\ ufCall' = "self"
    /\ UNCHANGED <<uf1, uf2>>
    /\ UNCHANGED OthersThanUsingFor

NextUsingFor == Merge \/ MergeSelf

SpecUsingFor == InitUsingFor /\ [][NextUsingFor]_vars

\* Keys present in both operands of the call that was made.
SharedKeys == (DOMAIN uf1) \cap (DOMAIN uf2)

\* C1: after merge_using_for(A, B), for every key k present in both A and B the
\* result's list at k is B[k] followed by A[k]: B's entries first, each side's
\* internal order kept, no entry dropped.
C1_MergeSecondOperandFirst ==
    ufCall = "merge" =>
        \A k \in SharedKeys :
            /\ k \in DOMAIN ufResult
            /\ Len(ufResult[k]) = Len(uf2[k]) + Len(uf1[k])
            /\ \A i \in 1..Len(uf2[k]) : ufResult[k][i] = uf2[k][i]
            /\ \A i \in 1..Len(uf1[k]) : ufResult[k][Len(uf2[k]) + i] = uf1[k][i]

\* C1 witness: a merge in which a shared key holds two different two-element
\* lists, so that the order of the concatenation shows.
C1_Witness ==
    /\ ufCall = "merge"
    /\ \E k \in SharedKeys :
        /\ Len(uf1[k]) = 2 /\ Len(uf2[k]) = 2
        /\ uf1[k][1] # uf1[k][2]
        /\ uf2[k] = <<uf1[k][2], uf1[k][1]>>
        /\ ufResult[k] = <<uf1[k][2], uf1[k][1], uf1[k][1], uf1[k][2]>>

\* C2: the key set of merge_using_for(A, B) is exactly keys(A) union keys(B),
\* the wildcard "*" being a key like any other, and a key present in only one
\* operand keeps that operand's list unchanged.
C2_MergeKeyUnion ==
    ufCall = "merge" =>
        /\ DOMAIN ufResult = (DOMAIN uf1) \cup (DOMAIN uf2)
        /\ \A k \in (DOMAIN uf1) \ (DOMAIN uf2) : ufResult[k] = uf1[k]
        /\ \A k \in (DOMAIN uf2) \ (DOMAIN uf1) : ufResult[k] = uf2[k]

\* C2 witness: a merge of a table that has only the wildcard with a table that
\* has only a type key, both lists non-empty.
C2_Witness ==
    /\ ufCall = "merge"
    /\ DOMAIN uf1 = {"*"} /\ uf1["*"] # <<>>
    /\ DOMAIN uf2 = {"uint256"} /\ uf2["uint256"] # <<>>
    /\ DOMAIN ufResult = {"*", "uint256"}
    /\ ufResult["*"] = uf1["*"]
    /\ ufResult["uint256"] = uf2["uint256"]

\* C3: merge_using_for does not deduplicate: merge_using_for(A, A)[k] has
\* length 2 * len(A[k]) for every key k of A, and for a key shared by A and B
\* len(merge(A, B)[k]) = len(A[k]) + len(B[k]) even when the two lists hold the
\* same targets.
C3_MergeNoDedup ==
    /\ ufCall = "self" =>
        /\ DOMAIN ufResult = DOMAIN uf1
        /\ \A k \in DOMAIN uf1 : Len(ufResult[k]) = 2 * Len(uf1[k])
    /\ ufCall = "merge" =>
        \A k \in SharedKeys : Len(ufResult[k]) = Len(uf1[k]) + Len(uf2[k])

\* C3 witness: a table with a non-empty list merged with itself, so that the
\* result differs from the operand.
C3_Witness ==
    /\ ufCall = "self"
    /\ \E k \in DOMAIN uf1 :
        /\ Len(uf1[k]) = 2
        /\ Len(ufResult[k]) = 4
        /\ ufResult # uf1

(***************************************************************************)
(* slither/slithir/variables/temporary.py                                  *)
(***************************************************************************)

\* Most TemporaryVariable objects constructed in one run.
MaxTemps == 5

\* Largest value a unit's counter starts from.
MaxStart == 1

\* The compilation units, and the functions whose nodes are lowered: unit U1
\* has the functions F1 and F2, unit U2 has the function F1.
Units == {"U1", "U2"}
Functions == {"F1", "F2"}

\* A CFG node, as far as the constructor looks at it: node.compilation_unit,
\* and the function the node belongs to.
Nodes ==
    {n \in [compilation_unit : Units, function : Functions] :
        n.compilation_unit = "U2" => n.function = "F1"}

\* Values of the constructor's location parameter.
TemporaryLocations == {None, "storage"}

\* TemporaryVariable.__init__ that leaves the unit's counter as it was.
TemporaryVariableInitNoIncrement(c, node, index, location) ==
    [tmp |-> [node |-> node, index |-> IF index = <<>> THEN c ELSE index[1],
              location |-> location],
     counter |-> c]

\* TemporaryVariable.__init__ that increments the unit's counter also when an
\* index is passed.
TemporaryVariableInitAlwaysIncrement(c, node, index, location) ==
    [tmp |-> [node |-> node, index |-> IF index = <<>> THEN c ELSE index[1],
              location |-> location],
     counter |-> c + 1]

\* TemporaryVariable.__init__ that increments before it reads the counter.
TemporaryVariableInitPreIncrement(c, node, index, location) ==
    IF index = <<>>
    THEN [tmp |-> [node |-> node, index |-> c + 1, location |-> location],
          counter |-> c + 1]
    ELSE [tmp |-> [node |-> node, index |-> index[1], location |-> location],
          counter |-> c]

\* TemporaryVariable.__init__(node, index, location), c being
\* node.compilation_unit.counter_slithir_temporary and index being <<>> for
\* None and <<n>> for n: the new object and the counter afterwards.  Without an index the object takes the counter's value
\* and the counter goes up by one; with an index the counter is not touched.
TemporaryVariableInit(c, node, index, location) ==
    IF index = <<>>
    THEN [tmp |-> [node |-> node, index |-> c, location |-> location],
          counter |-> c + 1]
    ELSE [tmp |-> [node |-> node, index |-> index[1], location |-> location],
          counter |-> c]

\* A counter that all compilation units share.
CounterOwnerShared(node) == "U1"

\* node.compilation_unit: the unit whose counter the constructor uses.
CounterOwner(node) == node.compilation_unit

\* TemporaryVariable.name
TemporaryName(t) == <<"TMP_", t.index>>

InitTemporary ==
    /\ counter \in [Units -> 0..MaxStart]
    /\ start = counter
    /\ temps = <<>>
    /\ tempArg = <<>>
    /\ IdleUsingFor /\ IdlePush /\ IdleCall /\ IdleType /\ IdleHeap /\ IdleCtor

\* TemporaryVariable(node, location=location): no explicit index
Construct(node, location) ==
    LET u == CounterOwner(node)
        r == TemporaryVariableInit(counter[u], node, <<>>, location)
    IN  /\ Len(temps) < MaxTemps
        /\ temps' = Append(temps, r.tmp)
        /\ counter' = [counter EXCEPT ![u] = r.counter]
        /\ tempArg' = <<>>
        /\ UNCHANGED start
        /\ UNCHANGED OthersThanTemporary

\* TemporaryVariable(node, index, location): an explicit index
ConstructWithIndex(node, index, location) ==
    LET u == CounterOwner(node)
        r == TemporaryVariableInit(counter[u], node, <<index>>, location)
    IN  /\ Len(temps) < MaxTemps
        /\ temps' = Append(temps, r.tmp)
        /\ counter' = [counter EXCEPT ![u] = r.counter]
        /\ tempArg' = <<index>>
        /\ UNCHANGED start
        /\ UNCHANGED OthersThanTemporary

\* tmp.index = idx, the index setter
SetIndex(i, idx) ==
    /\ temps[i].index # idx
    /\ temps' = [temps EXCEPT ![i].index = idx]
    /\ UNCHANGED <<counter, start, tempArg>>
    /\ UNCHANGED OthersThanTemporary

\* Lowering that only ever constructs temporaries without an explicit index.
NextAlloc ==
    \E node \in Nodes, location \in TemporaryLocations : Construct(node, location)

SpecAlloc == InitTemporary /\ [][NextAlloc]_vars

\* Most TemporaryVariable objects, and the largest explicit index, in a run
\* that uses every operation of the class.
MaxObjects == 2
MaxIndex == 2

\* Every operation TemporaryVariable offers: both forms of construction and
\* the index setter (the location, which plays no part in the index, is left
\* at its default).
NextTemporary ==
    \/ \E node \in Nodes :
          Len(temps) < MaxObjects /\ Construct(node, None)
    \/ \E node \in Nodes, index \in 0..MaxIndex :
          Len(temps) < MaxObjects /\ ConstructWithIndex(node, index, None)
    \/ \E i \in 1..Len(temps), idx \in 0..MaxIndex : SetIndex(i, idx)

SpecTemporary == InitTemporary /\ [][NextTemporary]_vars

\* The temporaries of unit u, in construction order, as positions in temps.
TempsOf(u) == {i \in 1..Len(temps) : temps[i].node.compilation_unit = u}

\* How many temporaries of unit u were constructed up to and including the i-th.
RankIn(u, i) == Cardinality({j \in TempsOf(u) : j <= i})

\* The indices of the temporaries of function f of unit u.
IndicesOf(u, f) ==
    {temps[i].index : i \in {j \in TempsOf(u) : temps[j].node.function = f}}

\* The functions of the nodes of unit u's temporaries, in construction order.
RECURSIVE FunctionsIn(_, _)
FunctionsIn(u, s) ==
    IF s = <<>> THEN <<>>
    ELSE IF Head(s).node.compilation_unit = u
         THEN <<Head(s).node.function>> \o FunctionsIn(u, Tail(s))
         ELSE FunctionsIn(u, Tail(s))

\* C4: whatever the functions and the order, no two temporaries constructed
\* without an explicit index on nodes of one compilation unit have equal index.
C4_TemporaryIndexUnique ==
    \A i, j \in 1..Len(temps) :
        (i # j /\ temps[i].node.compilation_unit = temps[j].node.compilation_unit)
            => temps[i].index # temps[j].index

\* C4 witness: one unit holds temporaries of two functions, constructed
\* alternately (F1, F2, F1).
C4_Witness ==
    \E u \in Units :
        /\ Cardinality(TempsOf(u)) >= 3
        /\ SubSeq(FunctionsIn(u, temps), 1, 3) = <<"F1", "F2", "F1">>

\* C5: from a unit counter c0, the k-th temporary constructed without an
\* explicit index in that unit has index c0 + k - 1, and the counter is then
\* c0 + k; with c0 = 0, F1 constructing 3 and F2 constructing 2 (either
\* function first) gives F1 and F2 disjoint index sets, {0,1,2} and {3,4} when
\* F1 comes first.
C5_TemporaryIndexSequence ==
    \A u \in Units :
        /\ \A i \in TempsOf(u) : temps[i].index = start[u] + RankIn(u, i) - 1
        /\ counter[u] = start[u] + Cardinality(TempsOf(u))
        /\ IndicesOf(u, "F1") \cap IndicesOf(u, "F2") = {}
        /\ (start[u] = 0 /\ FunctionsIn(u, temps) = <<"F1", "F1", "F1", "F2", "F2">>)
             => (IndicesOf(u, "F1") = {0, 1, 2} /\ IndicesOf(u, "F2") = {3, 4})
        /\ (start[u] = 0 /\ FunctionsIn(u, temps) = <<"F2", "F2", "F1", "F1", "F1">>)
             => (IndicesOf(u, "F2") = {0, 1} /\ IndicesOf(u, "F1") = {2, 3, 4})

\* C5 witness: the scenario itself, F1 then F2 in a unit whose counter
\* started at 0.
C5_Witness ==
    \E u \in Units :
        /\ start[u] = 0
        /\ FunctionsIn(u, temps) = <<"F1", "F1", "F1", "F2", "F2">>
        /\ counter[u] = 5

(***************************************************************************)
(* slither/slithir/operations/push.py                                      *)
(***************************************************************************)

\* Longest chain of references in front of a variable.
MaxRefDepth == 2

\* Type objects: k is the class, name the elementary kind, of the types it is
\* built from, length the optional length (<<>> for None, <<n>> for n).
ElementaryType(name) == [k |-> "ElementaryType", name |-> name, of |-> <<>>, length |-> <<>>]
ArrayType(t, length) == [k |-> "ArrayType", name |-> "", of |-> <<t>>, length |-> length]
NoType == [k |-> "NoneType", name |-> "", of |-> <<>>, length |-> <<>>]

\* The types of the variables the Push operations are built from: uint256,
\* uint256[], bool[2] and uint256[][].
PushTypes ==
    {ElementaryType("uint256"),
     ArrayType(ElementaryType("uint256"), <<>>),
     ArrayType(ElementaryType("bool"), <<2>>),
     ArrayType(ArrayType(ElementaryType("uint256"), <<>>), <<>>)}

\* Values of a variable's location attribute.
Locations == {None, "storage", "memory", "calldata"}

\* Variable objects: kind is the class, points_to the optional referent of a
\* ReferenceVariable (<<>> for None, <<v>> for v).
StateVariable(t) ==
    [kind |-> "StateVariable", location |-> None, type |-> t, points_to |-> <<>>]
LocalVariable(location, t) ==
    [kind |-> "LocalVariable", location |-> location, type |-> t, points_to |-> <<>>]
TemporaryVariable(location, t) ==
    [kind |-> "TemporaryVariable", location |-> location, type |-> t, points_to |-> <<>>]
ReferenceVariable(t, points_to) ==
    [kind |-> "ReferenceVariable", location |-> None, type |-> t, points_to |-> points_to]
Constant ==
    [kind |-> "Constant", location |-> None, type |-> ElementaryType("uint256"),
     points_to |-> <<>>]

\* Python's None where a variable is expected, and an object that is no Variable.
NoneObject == [kind |-> "NoneType", location |-> None, type |-> NoType, points_to |-> <<>>]
NotAVariable == [kind |-> "object", location |-> None, type |-> NoType, points_to |-> <<>>]

\* isinstance(v, cls) for the classes push.py tests; none of them derives
\* from another.
IsInstance(v, classes) == v.kind \in classes

\* isinstance(v, Variable)
VariableClasses ==
    {"StateVariable", "LocalVariable", "TemporaryVariable", "ReferenceVariable", "Constant"}

\* The variables that are no reference.
PlainVariables ==
    {StateVariable(t) : t \in PushTypes}
        \cup {LocalVariable(l, t) : l \in Locations, t \in PushTypes}
        \cup {TemporaryVariable(l, t) : l \in Locations, t \in PushTypes}
        \cup {Constant}

\* The references with at most d references in a row, a reference's points_to
\* being unset, a plain variable or another reference.
RECURSIVE References(_)
References(d) ==
    IF d = 0 THEN {}
    ELSE {ReferenceVariable(t, p) :
            t \in PushTypes,
            p \in {<<>>} \cup {<<v>> : v \in PlainVariables \cup References(d - 1)}}

IRVariables == PlainVariables \cup References(MaxRefDepth)

\* ReferenceVariable.points_to_origin: the first variable of the points_to
\* chain that is no reference (None when the chain ends unset).
RECURSIVE PointsToOrigin(_)
PointsToOrigin(v) ==
    IF v.points_to = <<>> THEN NoneObject
    ELSE IF IsInstance(v.points_to[1], {"ReferenceVariable"})
         THEN PointsToOrigin(v.points_to[1])
         ELSE v.points_to[1]

\* is_valid_lvalue(v): v is of a class that can be assigned to.
IsValidLvalue(v) ==
    IsInstance(v, {"StateVariable", "LocalVariable", "TemporaryVariable", "ReferenceVariable"})

\* A reference's immediate referent, None when unset.
PointsTo(v) == IF v.points_to = <<>> THEN NoneObject ELSE v.points_to[1]

\* _is_storage_variable that looks at the immediate referent var.points_to
\* where the code looks at var.points_to_origin.
IsStorageVariableImmediate(var) ==
    \/ IsInstance(var, {"ReferenceVariable"})
        /\ IsInstance(PointsTo(var), {"StateVariable"})
    \/ /\ IsInstance(var, {"ReferenceVariable"})
       /\ IsInstance(PointsTo(var), {"LocalVariable", "TemporaryVariable"})
       /\ PointsTo(var).location = "storage"
    \/ IsInstance(var, {"StateVariable"})
    \/ IsInstance(var, {"LocalVariable"}) /\ var.location = "storage"

\* _is_storage_variable whose last case takes a temporary as it takes a local.
IsStorageVariableTemporaryAsLocal(var) ==
    \/ IsInstance(var, {"ReferenceVariable"})
        /\ IsInstance(PointsToOrigin(var), {"StateVariable"})
    \/ /\ IsInstance(var, {"ReferenceVariable"})
       /\ IsInstance(PointsToOrigin(var), {"LocalVariable", "TemporaryVariable"})
       /\ PointsToOrigin(var).location = "storage"
    \/ IsInstance(var, {"StateVariable"})
    \/ IsInstance(var, {"LocalVariable", "TemporaryVariable"}) /\ var.location = "storage"

\* _is_storage_variable(var)
IsStorageVariable(var) ==
    \/ IsInstance(var, {"ReferenceVariable"})
        /\ IsInstance(PointsToOrigin(var), {"StateVariable"})
    \/ /\ IsInstance(var, {"ReferenceVariable"})
       /\ IsInstance(PointsToOrigin(var), {"LocalVariable", "TemporaryVariable"})
       /\ PointsToOrigin(var).location = "storage"
    \/ IsInstance(var, {"StateVariable"})
    \/ IsInstance(var, {"LocalVariable"}) /\ var.location = "storage"

\* Push.__init__ with the assertion on the lvalue only.
PushInitAssertsLvalueOnly(lvalue, array) == IsValidLvalue(lvalue)

\* The two assertions of Push.__init__(lvalue, array, elem).
PushInitAsserts(lvalue, array) ==
    /\ IsValidLvalue(lvalue)
    /\ IsInstance(array, VariableClasses) /\ array.type.k = "ArrayType"

\* The object Push.__init__ builds.
PushInit(lvalue, array, elem) == [lvalue |-> lvalue, array |-> array, elem |-> elem]
NoPush == PushInit(NoneObject, NoneObject, NoneObject)

\* Push.read that lists the element even when there is none.
PushReadAlways(op) == <<op.elem>>

\* Push.read
PushRead(op) == IF op.elem # NoneObject THEN <<op.elem>> ELSE <<>>

\* Push.storage that classifies the lvalue.
PushStorageOfLvalue(op) == IsStorageVariable(op.lvalue)

\* Push.storage
PushStorage(op) == IsStorageVariable(op.array)

\* Push.type: self._array.type.type, the element type of the array type
PushType(op) == op.array.type.of[1]

\* The lvalues and elements Push operations are constructed with.
PushLvalues ==
    {ReferenceVariable(ElementaryType("uint256"),
                       <<StateVariable(ArrayType(ElementaryType("uint256"), <<>>))>>),
     LocalVariable("memory", ElementaryType("uint256")),
     LocalVariable("storage", ArrayType(ElementaryType("uint256"), <<>>)),
     Constant}
PushElems ==
    {NoneObject, Constant,
     StateVariable(ElementaryType("uint256")),
     LocalVariable("memory", ArrayType(ElementaryType("uint256"), <<>>))}

InitPush ==
    /\ irVar \in IRVariables \cup {NotAVariable}
    /\ pcPush = "start"
    /\ isStorage = FALSE
    /\ pushOp = NoPush
    /\ pushObs = <<>>
    /\ pushArgs = NoPush
    /\ IdleUsingFor /\ IdleTemporary /\ IdleCall /\ IdleType /\ IdleHeap /\ IdleCtor

\* isStorage = _is_storage_variable(irVar)
Classify ==
    /\ pcPush = "start"
    /\ isStorage' = IsStorageVariable(irVar)
    /\ pcPush' = "classified"
    /\ UNCHANGED <<irVar, pushOp, pushObs, pushArgs>>
    /\ UNCHANGED OthersThanPush

\* pushOp = Push(lvalue, irVar, elem), both assertions passing
NewPush(lvalue, elem) ==
    /\ pcPush = "start"
    /\ PushInitAsserts(lvalue, irVar)
    /\ pushOp' = PushInit(lvalue, irVar, elem)
    /\ pcPush' = "constructed"
    /\ pushArgs' = [lvalue |-> lvalue, array |-> irVar, elem |-> elem]
    /\ UNCHANGED <<irVar, isStorage, pushObs>>
    /\ UNCHANGED OthersThanPush

\* Push(lvalue, irVar, elem) with an assertion failing: no operation is made
NewPushFails(lvalue, elem) ==
    /\ pcPush = "start"
    /\ ~PushInitAsserts(lvalue, irVar)
    /\ pcPush' = "AssertionError"
    /\ pushArgs' = [lvalue |-> lvalue, array |-> irVar, elem |-> elem]
    /\ UNCHANGED <<irVar, isStorage, pushOp, pushObs>>
    /\ UNCHANGED OthersThanPush

\* reading pushOp.read, pushOp.storage and pushOp.type
QueryPush ==
    /\ pcPush = "constructed"
    /\ pushObs' = [read |-> PushRead(pushOp), storage |-> PushStorage(pushOp),
                   type |-> PushType(pushOp)]
    /\ pcPush' = "queried"
    /\ UNCHANGED <<irVar, isStorage, pushOp, pushArgs>>
    /\ UNCHANGED OthersThanPush

NextPush ==
    \/ Classify
    \/ \E lvalue \in PushLvalues, elem \in PushElems : NewPush(lvalue, elem)
    \/ \E lvalue \in PushLvalues, elem \in PushElems : NewPushFails(lvalue, elem)
    \/ QueryPush

SpecPush == InitPush /\ [][NextPush]_vars

\* The four storage cases of a variable v, origin being its resolved origin.
StorageCase(v) ==
    LET origin == PointsToOrigin(v)
    IN  \/ v.kind = "ReferenceVariable" /\ origin.kind = "StateVariable"
        \/ /\ v.kind = "ReferenceVariable"
           /\ origin.kind \in {"LocalVariable", "TemporaryVariable"}
           /\ origin.location = "storage"
        \/ v.kind = "StateVariable"
        \/ v.kind = "LocalVariable" /\ v.location = "storage"

\* C6: _is_storage_variable(v) is true exactly when v is a Reference whose
\* resolved origin, however long the chain, is a state variable, or a Reference
\* whose origin is a local or temporary with location "storage", or a state
\* variable, or a local with location "storage".  So a Reference to (a
\* Reference to) a state variable and a plain state variable are storage; a
\* Reference to a memory local and a plain memory local are not.
C6_StorageClassification ==
    pcPush = "classified" =>
        /\ isStorage = StorageCase(irVar)
        /\ \A t, t1, t2 \in PushTypes :
            /\ irVar = StateVariable(t) => isStorage
            /\ irVar = ReferenceVariable(t1, <<StateVariable(t)>>) => isStorage
            /\ irVar = ReferenceVariable(t2, <<ReferenceVariable(t1, <<StateVariable(t)>>)>>)
                 => isStorage
            /\ irVar = LocalVariable("memory", t) => ~isStorage
            /\ irVar = ReferenceVariable(t1, <<LocalVariable("memory", t)>>) => ~isStorage
            /\ irVar = ReferenceVariable(t2,
                           <<ReferenceVariable(t1, <<LocalVariable("memory", t)>>)>>)
                 => ~isStorage

\* C6 witness: a Reference that reaches a state variable only through another
\* Reference has been classified as storage.
C6_Witness ==
    /\ pcPush = "classified"
    /\ isStorage
    /\ irVar.kind = "ReferenceVariable"
    /\ irVar.points_to # <<>>
    /\ irVar.points_to[1].kind = "ReferenceVariable"
    /\ irVar.points_to[1].points_to # <<>>
    /\ irVar.points_to[1].points_to[1].kind = "StateVariable"

\* C7: Push.read is the empty list when the Push was constructed with elem
\* None and the one-element list [elem] otherwise; neither the array nor the
\* lvalue is in read for being the array or the lvalue.
C7_PushRead ==
    pcPush = "queried" =>
        /\ pushOp.elem = NoneObject => pushObs.read = <<>>
        /\ pushOp.elem # NoneObject => pushObs.read = <<pushOp.elem>>
        /\ \A i \in 1..Len(pushObs.read) :
            pushObs.read[i] \in {pushOp.array, pushOp.lvalue}
                => pushObs.read[i] = pushOp.elem

\* C7 witness: a Push without element has been read, and its read is empty.
C7_Witness ==
    /\ pcPush = "queried"
    /\ pushOp.elem = NoneObject
    /\ pushOp.array # NoneObject
    /\ pushObs.read = <<>>

\* C8: for every Push, type is the element type of the target array's array
\* type and storage is the storage classification of the target array, not of
\* the lvalue or the element; a Push without element on a state variable of
\* type uint256[] has read = [], storage = true, type = uint256.
C8_PushStorageAndType ==
    pcPush = "queried" =>
        /\ pushOp.array.type = ArrayType(pushObs.type, pushOp.array.type.length)
        /\ pushObs.storage = StorageCase(pushOp.array)
        /\ (/\ pushOp.array = StateVariable(ArrayType(ElementaryType("uint256"), <<>>))
            /\ pushOp.elem = NoneObject)
             => pushObs = [read |-> <<>>, storage |-> TRUE,
                           type |-> ElementaryType("uint256")]

\* C8 witness: the scenario, with an lvalue that is itself no storage variable.
C8_Witness ==
    /\ pcPush = "queried"
    /\ pushOp.array = StateVariable(ArrayType(ElementaryType("uint256"), <<>>))
    /\ pushOp.elem = NoneObject
    /\ ~StorageCase(pushOp.lvalue)
    /\ pushObs = [read |-> <<>>, storage |-> TRUE, type |-> ElementaryType("uint256")]

(***************************************************************************)
(* slither/slithir/operations/call.py and event_call.py                    *)
(***************************************************************************)

\* Deepest nesting of containers inside an argument.
MaxNest == 2

\* Python values of the names and callstack parameters: None, a list, a str.
PyNone == [py |-> "NoneType", items |-> <<>>]
PyList(items) == [py |-> "list", items |-> items]
PyStr(text) == [py |-> "str", items |-> <<text>>]

\* Arguments of a call: a variable, or a container (list) of arguments.
Var(n) == [k |-> "var", n |-> n, e |-> <<>>]
List(e) == [k |-> "list", n |-> "", e |-> e]

\* The arguments nested at most d containers deep.
RECURSIVE ArgumentValues(_)
ArgumentValues(d) ==
    IF d = 0 THEN {Var("a"), Var("b"), Var("c")}
    ELSE {Var("a"), Var("b"), Var("c"), List(<<>>)}
            \cup {List(<<x>>) : x \in ArgumentValues(d - 1)}
            \cup {List(<<x, Var("c")>>) : x \in ArgumentValues(d - 1)}

\* The lists assigned to the arguments of a call.
ArgumentLists ==
    {<<>>, <<Var("a"), Var("b"), Var("c")>>}
        \cup {<<x>> : x \in ArgumentValues(MaxNest)}
        \cup {<<x, x>> : x \in ArgumentValues(MaxNest)}
        \cup {<<Var("a"), x, Var("b")>> : x \in ArgumentValues(MaxNest)}

\* The values passed as names, as callstack, and the event declarations.
NamesValues == {PyNone, PyList(<<>>), PyList(<<"to", "value">>), PyStr("to")}
Callstacks == {PyNone, PyList(<<>>), PyList(<<"f">>)}
Events == {"Transfer"}

\* The assertion of Call.__init__(names).
CallInitAsserts(names) == names = PyNone \/ names.py = "list"

\* The object Call.__init__(names) builds; EventCall.__init__(destination)
\* calls it with no names and adds the destination.
CallInit(names) ==
    [cls |-> "Call", arguments |-> <<>>, names |-> names, destination |-> ""]
EventCallInit(destination) ==
    [CallInit(PyNone) EXCEPT !.cls = "EventCall", !.destination = destination]
NoCall == [cls |-> "NoneType", arguments |-> <<>>, names |-> PyNone, destination |-> ""]

\* can_reenter that answers true once it is given a callstack.
CallCanReenterWithCallstack(op, callstack) == callstack # PyNone

\* Call.can_reenter(_callstack=None), inherited unchanged by EventCall
CallCanReenter(op, callstack) == FALSE

\* Call.can_send_eth(), inherited unchanged by EventCall
CallCanSendEth(op) == FALSE

\* Operation._unroll(l): every element of l that is a container is replaced
\* by its elements, one level deep; the other elements are kept.
RECURSIVE Unroll(_)
Unroll(l) ==
    IF l = <<>> THEN <<>>
    ELSE (IF Head(l).k = "list" THEN Head(l).e ELSE <<Head(l)>>) \o Unroll(Tail(l))

\* EventCall.read that returns the arguments as they are.
EventCallReadArguments(op) == op.arguments

\* EventCall.read
EventCallRead(op) == Unroll(op.arguments)

\* EventCall.name
EventCallName(op) == op.destination

NoObs == [asked |-> FALSE, callstack |-> PyNone, can_reenter |-> FALSE, can_send_eth |-> FALSE]
NoRead == [asked |-> FALSE, value |-> <<>>]

InitCall ==
    /\ callOp = NoCall
    /\ pcCall = "start"
    /\ callObs = NoObs
    /\ callRead = NoRead
    /\ IdleUsingFor /\ IdleTemporary /\ IdlePush /\ IdleType /\ IdleHeap /\ IdleCtor

\* callOp = Call(names), the assertion passing
NewCall(names) ==
    /\ pcCall = "start"
    /\ CallInitAsserts(names)
    /\ callOp' = CallInit(names)
    /\ pcCall' = "constructed"
    /\ UNCHANGED <<callObs, callRead>>
    /\ UNCHANGED OthersThanCall

\* Call(names) with names neither None nor a list
NewCallFails(names) ==
    /\ pcCall = "start"
    /\ ~CallInitAsserts(names)
    /\ pcCall' = "AssertionError"
    /\ UNCHANGED <<callOp, callObs, callRead>>
    /\ UNCHANGED OthersThanCall

\* callOp = EventCall(destination)
NewEventCall(destination) ==
    /\ pcCall = "start"
    /\ callOp' = EventCallInit(destination)
    /\ pcCall' = "constructed"
    /\ UNCHANGED <<callObs, callRead>>
    /\ UNCHANGED OthersThanCall

\* callOp.arguments = v
SetArguments(v) ==
    /\ pcCall = "constructed"
    /\ callOp' = [callOp EXCEPT !.arguments = v]
    /\ callObs' = NoObs
    /\ callRead' = NoRead
    /\ UNCHANGED pcCall
    /\ UNCHANGED OthersThanCall

\* callOp.can_reenter(callstack) and callOp.can_send_eth()
AskCall(callstack) ==
    /\ pcCall = "constructed"
    /\ callObs' = [asked |-> TRUE, callstack |-> callstack,
                   can_reenter |-> CallCanReenter(callOp, callstack),
                   can_send_eth |-> CallCanSendEth(callOp)]
    /\ UNCHANGED <<callOp, pcCall, callRead>>
    /\ UNCHANGED OthersThanCall

\* callOp.read, callOp being an EventCall
ReadEventCall ==
    /\ pcCall = "constructed"
    /\ callOp.cls = "EventCall"
    /\ callRead' = [asked |-> TRUE, value |-> EventCallRead(callOp)]
    /\ UNCHANGED <<callOp, pcCall, callObs>>
    /\ UNCHANGED OthersThanCall

NextCall ==
    \/ \E names \in NamesValues : NewCall(names)
    \/ \E names \in NamesValues : NewCallFails(names)
    \/ \E destination \in Events : NewEventCall(destination)
    \/ \E v \in ArgumentLists : SetArguments(v)
    \/ \E callstack \in Callstacks : AskCall(callstack)
    \/ ReadEventCall

SpecCall == InitCall /\ [][NextCall]_vars

\* C9: for the base Call and for EventCall, can_reenter is false for every
\* callstack argument, none included, and can_send_eth is false, whatever the
\* arguments and names are and after any sequence of assignments to arguments.
C9_CallCannotReenterOrSendEth ==
    callObs.asked => (~callObs.can_reenter /\ ~callObs.can_send_eth)

\* C9 witness: an EventCall whose arguments were assigned a non-empty list has
\* been asked with a callstack.
C9_Witness ==
    /\ callObs.asked
    /\ callOp.cls = "EventCall"
    /\ callOp.arguments # <<>>
    /\ callObs.callstack = PyList(<<"f">>)
    /\ ~callObs.can_reenter /\ ~callObs.can_send_eth

\* How many read operands an argument stands for, and where the operands of
\* the i-th argument start in read.
Width(x) == IF x.k = "list" THEN Len(x.e) ELSE 1
RECURSIVE Offset(_, _)
Offset(args, i) == IF i <= 1 THEN 0 ELSE Offset(args, i - 1) + Width(args[i - 1])

\* C10: EventCall.read is the arguments list with every argument that is a
\* container replaced in place by its own elements, one level deep (an element
\* that is again a container stays one), order kept; with no container among
\* the arguments read is the arguments list, e.g. [a, b, c] gives [a, b, c].
C10_EventCallReadUnrollsOneLevel ==
    callRead.asked =>
        LET args == callOp.arguments
            read == callRead.value
        IN  /\ Len(read) = Offset(args, Len(args) + 1)
            /\ \A i \in 1..Len(args) :
                IF args[i].k = "list"
                THEN \A j \in 1..Len(args[i].e) : read[Offset(args, i) + j] = args[i].e[j]
                ELSE read[Offset(args, i) + 1] = args[i]
            /\ (\A i \in 1..Len(args) : args[i].k # "list") => read = args
            /\ args = <<Var("a"), Var("b"), Var("c")>>
                 => read = <<Var("a"), Var("b"), Var("c")>>

\* C10 witness: an EventCall read whose arguments hold a container between
\* two variables, the container holding a container itself.
C10_Witness ==
    /\ callRead.asked
    /\ callOp.arguments = <<Var("a"), List(<<List(<<Var("b")>>), Var("c")>>), Var("b")>>
    /\ callRead.value = <<Var("a"), List(<<Var("b")>>), Var("c"), Var("b")>>

(***************************************************************************)
(* slither/core/solidity_types/typename_type.py,                           *)
(* slither/core/expressions/tuple_expression.py and                        *)
(* slither/solc_parsing/default_values.py                                  *)
(***************************************************************************)

\* Deepest nesting of array, alias and typename constructors around a type.
MaxTypeDepth == 2

\* Largest length of a fixed array.
MaxFixedLen == 2

\* The elementary kinds: the lists Int, Uint and Byte of elementary_type.py
\* (a few members of each), and address, string and bool.
\* (Int names the integers of the Integers module, so the list is SignedInt.)
SignedInt == {"int256"}
Uint == {"uint256", "uint8"}
Byte == {"bytes", "bytes32"}
ElementaryKinds == SignedInt \cup Uint \cup Byte \cup {"address", "string", "bool"}

\* The other Type classes, in the shape of ElementaryType and ArrayType.  A
\* UserDefinedType names its declaration; a TypeAlias and a Typename hold the
\* type they wrap; a FunctionType holds its parameter and return variables.
UserDefinedType(declaration) ==
    [k |-> "UserDefinedType", name |-> declaration, of |-> <<>>, length |-> <<>>]
TypeAlias(underlying, name) ==
    [k |-> "TypeAlias", name |-> name, of |-> <<underlying>>, length |-> <<>>]
Typename(t) == [k |-> "Typename", name |-> "", of |-> <<t>>, length |-> <<>>]
FunctionTypeVariables(types) ==
    [k |-> "FunctionTypeVariables", name |-> "", of |-> types, length |-> <<>>]
FunctionType(params, return_type) ==
    [k |-> "FunctionType", name |-> "",
     of |-> <<FunctionTypeVariables(params), FunctionTypeVariables(return_type)>>,
     length |-> <<>>]

\* ArrayType.is_dynamic_array, ArrayType.is_fixed_array
IsDynamicArray(ty) == ty.length = <<>>
IsFixedArray(ty) == ~IsDynamicArray(ty)

\* The text of a fixed array's length literal, and int() of such a text.
Decimal == <<"0", "1", "2", "3", "4", "5", "6", "7", "8", "9">>
LengthValue(ty) == Decimal[ty.length[1] + 1]
IntOf(text) == CHOOSE n \in 0..9 : Decimal[n + 1] = text

\* The declarations of the program: a contract, an enum, and the structures
\* S (fields b, a), Node (a value and the dynamic array of its children) and
\* Bad (a field of function type), with their fields in declaration order.
\* The field elems is the name-sorted view of the fields.
Field(name, t) == [name |-> name, type |-> t]
Declarations ==
    [C |-> [kind |-> "Contract", elems_ordered |-> <<>>, elems |-> <<>>],
     E |-> [kind |-> "Enum", elems_ordered |-> <<>>, elems |-> <<>>],
     S |-> [kind |-> "Structure",
            elems_ordered |-> <<Field("b", ElementaryType("bool")),
                                Field("a", ElementaryType("uint256"))>>,
            elems |-> <<Field("a", ElementaryType("uint256")),
                        Field("b", ElementaryType("bool"))>>],
     Node |-> [kind |-> "Structure",
               elems_ordered |-> <<Field("value", ElementaryType("string")),
                                   Field("children",
                                         ArrayType(UserDefinedType("Node"), <<>>))>>,
               elems |-> <<Field("children",
                                 ArrayType(UserDefinedType("Node"), <<>>)),
                           Field("value", ElementaryType("string"))>>],
     Bad |-> [kind |-> "Structure",
              elems_ordered |-> <<Field("x", ElementaryType("uint8")),
                                  Field("callback", FunctionType(<<>>, <<>>))>>,
              elems |-> <<Field("callback", FunctionType(<<>>, <<>>)),
                          Field("x", ElementaryType("uint8"))>>]]
DeclarationNames == DOMAIN Declarations

\* The types that wrap no other type.
PlainTypes ==
    {ElementaryType(kind) : kind \in ElementaryKinds}
        \cup {UserDefinedType(d) : d \in DeclarationNames}
        \cup {FunctionType(<<>>, <<>>)}

\* The types with at most d array, alias or typename constructors around a
\* plain type.
RECURSIVE TypesOfDepth(_)
TypesOfDepth(d) ==
    IF d = 0 THEN PlainTypes
    ELSE LET inner == TypesOfDepth(d - 1)
         IN  PlainTypes
                \cup {ArrayType(t, <<>>) : t \in inner}
                \cup {ArrayType(t, <<n>>) : t \in inner, n \in 0..MaxFixedLen}
                \cup {TypeAlias(t, "A") : t \in inner}
                \cup {Typename(t) : t \in inner}

Types == TypesOfDepth(MaxTypeDepth)

\* What a call gives back: an exception raised, or a value returned.
\* The third argument of CallExpression: a text built from a type or from a
\* declaration's name, or a Type.
TypeCall(fmt, ty, name) == [fmt |-> fmt, ty |-> ty, name |-> name]
NoTypeCall == TypeCall("", NoType, "")

\* The Expression classes, all in one shape: a node's own text (value), its
\* type, the expression it is applied to (called, empty or one expression),
\* and its sub-expressions in order (subs).
NoExpression ==
    [node |-> "NoneType", value |-> "", type |-> NoType, called |-> <<>>,
     subs |-> <<>>, flag |-> FALSE, depth |-> 0, type_call |-> NoTypeCall]
Literal(value, t) ==
    [NoExpression EXCEPT !.node = "Literal", !.value = value, !.type = t]
NewArray(depth, array_type) ==
    [NoExpression EXCEPT !.node = "NewArray", !.depth = depth, !.type = array_type]
CallExpression(called, arguments, type_call) ==
    [NoExpression EXCEPT !.node = "CallExpression", !.called = <<called>>,
                         !.subs = arguments, !.type_call = type_call]
Identifier(value) ==
    [NoExpression EXCEPT !.node = "Identifier", !.value = value]
MemberAccess(member_name, member_type, expression) ==
    [NoExpression EXCEPT !.node = "MemberAccess", !.value = member_name,
                         !.type = member_type, !.called = <<expression>>]
TypeConversion(expression, expression_type) ==
    [NoExpression EXCEPT !.node = "TypeConversion", !.type = expression_type,
                         !.called = <<expression>>]
ElementaryTypeNameExpression(t) ==
    [NoExpression EXCEPT !.node = "ElementaryTypeNameExpression", !.type = t]

\* TupleExpression.__init__ (every member given here is an Expression)
TupleExpression(expressions, is_inline_array) ==
    [NoExpression EXCEPT !.node = "TupleExpression", !.subs = expressions,
                         !.flag = is_inline_array]
Raise == [raised |-> TRUE, value |-> NoExpression]
Return(value) == [raised |-> FALSE, value |-> value]

\* Typename.storage_size that returns where the code asserts.
TypenameStorageSizeReturns(ty) == Return(NoExpression)

\* Typename.storage_size: assert False
TypenameStorageSize(ty) == Raise

\* Typename.is_dynamic: assert False
TypenameIsDynamic(ty) == Raise

RECURSIVE GetDefaultValue(_)

\* [get_default_value(t) for t in types]: the results in order, whether one of
\* them raised, and the values returned.
DefaultValues(types) == [i \in 1..Len(types) |-> GetDefaultValue(types[i])]
AnyRaised(results) == \E i \in 1..Len(results) : results[i].raised
ValuesOf(results) == [i \in 1..Len(results) |-> results[i].value]
FieldTypes(fields) == [i \in 1..Len(fields) |-> fields[i].type]
Repeat(x, n) == [i \in 1..n |-> x]

\* lines 26-27: the integer, byte and address kinds
DefaultOfNumeric(ty) == Return(Literal("0", ElementaryType(ty.name)))

\* lines 28-29 with the numeric literal in place of the empty text.
DefaultOfStringZero(ty) == Return(Literal("0", ElementaryType("string")))

\* lines 28-29: string
DefaultOfString(ty) == Return(Literal("", ElementaryType("string")))

\* lines 30-31: bool
DefaultOfBool(ty) == Return(Literal("false", ElementaryType("bool")))

\* lines 32-37 made to synthesize the element's default as the argument.
DefaultOfDynamicArrayRecursing(ty) ==
    LET r == GetDefaultValue(ty.of[1])
    IN  IF r.raised THEN Raise
        ELSE Return(CallExpression(NewArray(1, ty.of[1]), <<r.value>>,
                                   TypeCall("{}[] memory", ty.of[1], "")))

\* lines 32-37: a dynamic array
DefaultOfDynamicArray(ty) ==
    Return(CallExpression(NewArray(1, ty.of[1]),
                          <<Literal("0", ElementaryType("uint256"))>>,
                          TypeCall("{}[] memory", ty.of[1], "")))

\* lines 38-43 made to visit the element type once whatever the length.
DefaultOfFixedArrayVisiting(ty) ==
    LET length == IntOf(LengthValue(ty))
        r == GetDefaultValue(ty.of[1])
    IN  IF r.raised THEN Raise
        ELSE Return(TupleExpression(Repeat(r.value, length), TRUE))

\* lines 38-43: a fixed array
DefaultOfFixedArray(ty) ==
    LET length == IntOf(LengthValue(ty))
        results == DefaultValues(Repeat(ty.of[1], length))
    IN  IF AnyRaised(results) THEN Raise
        ELSE Return(TupleExpression(ValuesOf(results), TRUE))

\* lines 44-53: an enum
DefaultOfEnum(ty) ==
    Return(MemberAccess("min", ty,
                        CallExpression(Identifier("type()"),
                                       <<Identifier(ty.name)>>,
                                       TypeCall("type(enum {})", NoType, ty.name))))

\* lines 54-59 with the fields taken in name order.
DefaultOfStructureSorted(ty) ==
    LET results == DefaultValues(FieldTypes(Declarations[ty.name].elems))
    IN  IF AnyRaised(results) THEN Raise
        ELSE Return(CallExpression(Identifier(ty.name), ValuesOf(results),
                                   TypeCall("struct {} memory", NoType, ty.name)))

\* lines 54-59: a structure
DefaultOfStructure(ty) ==
    LET results == DefaultValues(FieldTypes(Declarations[ty.name].elems_ordered))
    IN  IF AnyRaised(results) THEN Raise
        ELSE Return(CallExpression(Identifier(ty.name), ValuesOf(results),
                                   TypeCall("struct {} memory", NoType, ty.name)))

\* lines 60-64: a contract
DefaultOfContract(ty) ==
    Return(TypeConversion(TypeConversion(Literal("0", ElementaryType("uint256")),
                                         ElementaryType("address")),
                          UserDefinedType(ty.name)))

\* lines 65-76 made to give the underlying type's default as it is.
DefaultOfAliasBare(ty) == GetDefaultValue(ty.of[1])

\* lines 65-76: an alias
DefaultOfAlias(ty) ==
    LET arg == ty.of[1]
        ret == ty
        r == GetDefaultValue(ty.of[1])
    IN  IF r.raised THEN Raise
        ELSE Return(CallExpression(
                        MemberAccess("wrap", FunctionType(<<arg>>, <<ret>>),
                                     ElementaryTypeNameExpression(ty)),
                        <<r.value>>,
                        TypeCall("", ty, "")))

\* line 25 made to hand back a placeholder for a function type.
AssertNotFunctionTypePlaceholder(ty) == Return(Literal("0", ty))

\* line 25: assert not isinstance(ty, FunctionType)
AssertNotFunctionType(ty) == Raise

\* line 78: assert False
Unreachable(ty) == Raise

\* get_default_value
GetDefaultValue(ty) ==
    IF ty.k = "FunctionType" THEN AssertNotFunctionType(ty)
    ELSE IF ty.k = "ElementaryType"
              /\ ty.name \in SignedInt \cup Uint \cup Byte \cup {"address"}
        THEN DefaultOfNumeric(ty)
    ELSE IF ty.k = "ElementaryType" /\ ty.name = "string" THEN DefaultOfString(ty)
    ELSE IF ty.k = "ElementaryType" /\ ty.name = "bool" THEN DefaultOfBool(ty)
    ELSE IF ty.k = "ArrayType" /\ IsDynamicArray(ty) THEN DefaultOfDynamicArray(ty)
    ELSE IF ty.k = "ArrayType" /\ IsFixedArray(ty) THEN DefaultOfFixedArray(ty)
    ELSE IF ty.k = "UserDefinedType" /\ Declarations[ty.name].kind = "Enum"
        THEN DefaultOfEnum(ty)
    ELSE IF ty.k = "UserDefinedType" /\ Declarations[ty.name].kind = "Structure"
        THEN DefaultOfStructure(ty)
    ELSE IF ty.k = "UserDefinedType" /\ Declarations[ty.name].kind = "Contract"
        THEN DefaultOfContract(ty)
    ELSE IF ty.k = "TypeAlias" THEN DefaultOfAlias(ty)
    ELSE Unreachable(ty)

InitType ==
    /\ tyArg \in Types
    /\ tyCall = "none"
    /\ pcType = "start"
    /\ tyResult = NoExpression
    /\ tyStack = <<>>
    /\ IdleUsingFor /\ IdleTemporary /\ IdlePush /\ IdleCall /\ IdleHeap /\ IdleCtor

\* tyArg.storage_size, tyArg being a Typename
CallStorageSize ==
    LET r == TypenameStorageSize(tyArg)
    IN  /\ pcType = "start"
        /\ tyArg.k = "Typename"
        /\ tyCall' = "storage_size"
        /\ pcType' = IF r.raised THEN "AssertionError" ELSE "returned"
        /\ tyResult' = r.value
        /\ UNCHANGED <<tyArg, tyStack>>
        /\ UNCHANGED OthersThanType

\* tyArg.is_dynamic, tyArg being a Typename
CallIsDynamic ==
    LET r == TypenameIsDynamic(tyArg)
    IN  /\ pcType = "start"
        /\ tyArg.k = "Typename"
        /\ tyCall' = "is_dynamic"
        /\ pcType' = IF r.raised THEN "AssertionError" ELSE "returned"
        /\ tyResult' = r.value
        /\ UNCHANGED <<tyArg, tyStack>>
        /\ UNCHANGED OthersThanType

\* get_default_value(tyArg)
CallGetDefaultValue ==
    LET r == GetDefaultValue(tyArg)
    IN  /\ pcType = "start"
        /\ tyCall' = "get_default_value"
        /\ pcType' = IF r.raised THEN "AssertionError" ELSE "returned"
        /\ tyResult' = r.value
        /\ UNCHANGED <<tyArg, tyStack>>
        /\ UNCHANGED OthersThanType

NextType == CallStorageSize \/ CallIsDynamic \/ CallGetDefaultValue

SpecType == InitType /\ [][NextType]_vars

\* C11: for every Typename, whatever type it wraps, the queries storage_size
\* and is_dynamic fail with an assertion and return no value.
C11_TypenameLayoutQueriesFail ==
    tyCall \in {"storage_size", "is_dynamic"} =>
        /\ tyArg.k = "Typename"
        /\ pcType = "AssertionError"
        /\ tyResult = NoExpression

\* is_dynamic has failed on a Typename that wraps another Typename.
C11_Witness ==
    /\ tyCall = "is_dynamic"
    /\ pcType = "AssertionError"
    /\ tyArg.k = "Typename"
    /\ tyArg.of[1].k = "Typename"

\* The call get_default_value(tyArg) is over.
Called == tyCall = "get_default_value"

\* The call returned the literal of the given text and elementary kind.
ReturnedLiteral(text, kind) ==
    /\ pcType = "returned"
    /\ tyResult.node = "Literal"
    /\ tyResult.value = text
    /\ tyResult.type.k = "ElementaryType"
    /\ tyResult.type.name = kind
    /\ tyResult.called = <<>> /\ tyResult.subs = <<>>

\* C12: get_default_value on an Elementary type returns a literal of that
\* same kind with text "0" for every integer kind, for address and for the
\* byte kinds, the literal "" of type string for string, and the literal
\* "false" of type bool for bool.
C12_ElementaryDefaults ==
    (Called /\ tyArg.k = "ElementaryType") =>
        /\ tyArg.name \in SignedInt \cup Uint \cup Byte \cup {"address"}
              => ReturnedLiteral("0", tyArg.name)
        /\ tyArg.name = "string" => ReturnedLiteral("", "string")
        /\ tyArg.name = "bool" => ReturnedLiteral("false", "bool")
        /\ tyArg.name \in ElementaryKinds

\* The default of string has been returned: the empty text.
C12_Witness ==
    /\ Called
    /\ tyArg = ElementaryType("string")
    /\ pcType = "returned"
    /\ tyResult.value = ""

\* tyArg is a fixed array; its length N.
FixedArrayGiven == tyArg.k = "ArrayType" /\ tyArg.length # <<>>
N == tyArg.length[1]

\* C13: get_default_value on a fixed array of length N >= 0 returns a
\* TupleExpression with is_inline_array true holding exactly N
\* sub-expressions, each structurally equal to get_default_value of the
\* element type; for N = 0 the tuple is empty and the element type is never
\* visited (the call returns even where the element type has no default).
C13_FixedArrayDefault ==
    (Called /\ FixedArrayGiven) =>
        LET element == GetDefaultValue(tyArg.of[1])
        IN  (N = 0 \/ ~element.raised) =>
                /\ pcType = "returned"
                /\ tyResult.node = "TupleExpression"
                /\ tyResult.flag = TRUE
                /\ Len(tyResult.subs) = N
                /\ \A i \in 1..N : tyResult.subs[i] = element.value

\* The default of S[2] has been returned: two constructor calls on S.
C13_Witness ==
    /\ Called
    /\ tyArg = ArrayType(UserDefinedType("S"), <<2>>)
    /\ pcType = "returned"
    /\ Len(tyResult.subs) = 2
    /\ tyResult.subs[2].node = "CallExpression"

\* C14: get_default_value on a dynamic array of any element type returns a
\* call of a new-array expression parameterized by the element type, with
\* exactly one argument, the literal "0" of type uint256; the element type is
\* not recursed into (the call returns whatever the element type is).
C14_DynamicArrayDefault ==
    (Called /\ tyArg.k = "ArrayType" /\ tyArg.length = <<>>) =>
        /\ pcType = "returned"
        /\ tyResult.node = "CallExpression"
        /\ Len(tyResult.called) = 1
        /\ tyResult.called[1].node = "NewArray"
        /\ tyResult.called[1].type = tyArg.of[1]
        /\ Len(tyResult.subs) = 1
        /\ tyResult.subs[1].node = "Literal"
        /\ tyResult.subs[1].value = "0"
        /\ tyResult.subs[1].type.k = "ElementaryType"
        /\ tyResult.subs[1].type.name = "uint256"

\* The default of a dynamic array of functions has been returned, although a
\* function type has no default of its own.
C14_Witness ==
    /\ Called
    /\ tyArg = ArrayType(FunctionType(<<>>, <<>>), <<>>)
    /\ GetDefaultValue(tyArg.of[1]).raised
    /\ pcType = "returned"
    /\ tyResult.subs[1].value = "0"

\* tyArg is a structure type; its fields in declaration order.
StructureGiven ==
    tyArg.k = "UserDefinedType" /\ Declarations[tyArg.name].kind = "Structure"
Fields == Declarations[tyArg.name].elems_ordered

\* C15: get_default_value on a Structure type returns a constructor call on
\* that structure whose argument list has one entry per field, the i-th
\* argument being get_default_value of the i-th field's type in declaration
\* order (elems_ordered), not in a sorted order.
C15_StructureDefault ==
    (Called /\ StructureGiven
        /\ \A i \in 1..Len(Fields) : ~GetDefaultValue(Fields[i].type).raised) =>
        /\ pcType = "returned"
        /\ tyResult.node = "CallExpression"
        /\ Len(tyResult.called) = 1
        /\ tyResult.called[1].node = "Identifier"
        /\ tyResult.called[1].value = tyArg.name
        /\ Len(tyResult.subs) = Len(Fields)
        /\ \A i \in 1..Len(Fields) :
              tyResult.subs[i] = GetDefaultValue(Fields[i].type).value

\* The default of S, declared with a bool field b before a uint256 field a,
\* has been returned: false first, then 0.
C15_Witness ==
    /\ Called
    /\ tyArg = UserDefinedType("S")
    /\ Fields[1].name = "b" /\ Fields[2].name = "a"
    /\ pcType = "returned"
    /\ tyResult.subs[1].value = "false"
    /\ tyResult.subs[2].value = "0"

\* C16: get_default_value on an Alias type returns a call to a "wrap" member
\* access whose single argument is get_default_value of the underlying type
\* and whose synthetic function type has one parameter typed as the
\* underlying type and one return typed as the alias; the result's type is
\* the alias itself, so it is never the bare default of the underlying type.
C16_AliasDefault ==
    (Called /\ tyArg.k = "TypeAlias") =>
        LET underlying == GetDefaultValue(tyArg.of[1])
        IN  ~underlying.raised =>
                /\ pcType = "returned"
                /\ tyResult.node = "CallExpression"
                /\ Len(tyResult.called) = 1
                /\ tyResult.called[1].node = "MemberAccess"
                /\ tyResult.called[1].value = "wrap"
                /\ tyResult.called[1].type.k = "FunctionType"
                /\ tyResult.called[1].type.of[1].of = <<tyArg.of[1]>>
                /\ tyResult.called[1].type.of[2].of = <<tyArg>>
                /\ Len(tyResult.subs) = 1
                /\ tyResult.subs[1] = underlying.value
                /\ tyResult.type_call.ty = tyArg
                /\ tyResult # underlying.value

\* The default of an alias of uint256 has been returned: a wrap call around
\* the literal 0.
C16_Witness ==
    /\ Called
    /\ tyArg = TypeAlias(ElementaryType("uint256"), "A")
    /\ pcType = "returned"
    /\ tyResult.called[1].value = "wrap"
    /\ tyResult.subs[1].value = "0"

\* A function type or a Typename is the type itself, or is met on the way
\* through struct fields, fixed-array elements (N >= 1) and alias underlying
\* types.
RECURSIVE ReachesTypeWithoutCase(_)
ReachesTypeWithoutCase(ty) ==
    \/ ty.k \in {"FunctionType", "Typename"}
    \/ /\ ty.k = "ArrayType"
       /\ ty.length # <<>>
       /\ ty.length[1] >= 1
       /\ ReachesTypeWithoutCase(ty.of[1])
    \/ /\ ty.k = "TypeAlias"
       /\ ReachesTypeWithoutCase(ty.of[1])
    \/ /\ ty.k = "UserDefinedType"
       /\ Declarations[ty.name].kind = "Structure"
       /\ \E i \in 1..Len(Declarations[ty.name].elems_ordered) :
             ReachesTypeWithoutCase(Declarations[ty.name].elems_ordered[i].type)

\* C17: get_default_value fails with an assertion, and returns no
\* placeholder expression, when given a Function type or a type shape it has
\* no case for (a Typename), also when such a type is reached recursively as
\* a struct field, a fixed-array element (N >= 1) or an alias's underlying
\* type.
C17_NoDefaultFailsFast ==
    (Called /\ ReachesTypeWithoutCase(tyArg)) =>
        /\ pcType = "AssertionError"
        /\ tyResult = NoExpression

\* The call has failed on an alias of the structure Bad, whose second field
\* is of function type.
C17_Witness ==
    /\ Called
    /\ tyArg = TypeAlias(UserDefinedType("Bad"), "A")
    /\ Declarations["Bad"].elems_ordered[2].type.k = "FunctionType"
    /\ pcType = "AssertionError"

\* The type is built from elementary kinds, fixed and dynamic arrays,
\* user-defined types (contract, structure, enum) and aliases only.
RECURSIVE BuiltFromDefaultableShapes(_)
BuiltFromDefaultableShapes(ty) ==
    \/ ty.k = "ElementaryType" /\ ty.name \in ElementaryKinds
    \/ ty.k = "UserDefinedType"
          /\ Declarations[ty.name].kind \in {"Contract", "Structure", "Enum"}
    \/ ty.k \in {"ArrayType", "TypeAlias"} /\ BuiltFromDefaultableShapes(ty.of[1])

\* C18: get_default_value is total over all constructible types except
\* Function: for every type built from elementary kinds, fixed and dynamic
\* arrays, user-defined types (contract, structure, enum) and aliases, whose
\* top-level shape is not Function, it returns an expression without
\* failing.
C18_TotalExceptFunction ==
    (Called /\ tyArg.k # "FunctionType" /\ BuiltFromDefaultableShapes(tyArg)) =>
        /\ pcType = "returned"
        /\ tyResult # NoExpression

\* A step that constructs a TemporaryVariable, and the unit of its node.
ConstructionStep == Len(temps') = Len(temps) + 1
UnitOfNew == temps'[Len(temps')].node.compilation_unit

\* C19 as stated: every construction of a TemporaryVariable on a node of
\* compilation unit U increments U's counter_slithir_temporary by exactly 1,
\* whether or not an explicit index is passed to the constructor.
C19_EveryConstructionIncrements ==
    [][ConstructionStep => counter'[UnitOfNew] = counter[UnitOfNew] + 1]_vars

\* C19, amended: a construction on a node of unit U without an explicit index
\* increments U's counter by exactly 1; a construction with an explicit index
\* leaves U's counter unchanged; no construction changes another unit's
\* counter.
C19_ConstructionIncrementsUnlessIndexGiven ==
    [][ConstructionStep =>
          counter' = [counter EXCEPT ![UnitOfNew] =
                          counter[UnitOfNew] + (IF tempArg' = <<>> THEN 1 ELSE 0)]]_vars

\* One temporary has been constructed with an explicit index, and every
\* counter is where it started.
C19_Witness ==
    /\ Len(temps) = 1
    /\ tempArg # <<>>
    /\ temps[1].index = tempArg[1]
    /\ counter = start

\* C20 as stated: after any sequence of constructions without index,
\* constructions with an explicit index and assignments through the index
\* setter, no two temporaries of one compilation unit have the same index,
\* hence no two have the same name.
C20_IndexUniqueUnderEveryOperation ==
    \A u \in Units : \A i, j \in TempsOf(u) :
        i # j => /\ temps[i].index # temps[j].index
                 /\ TemporaryName(temps[i]) # TemporaryName(temps[j])

\* The temporaries of unit u among s, in construction order.
RECURSIVE TemporariesOf(_, _)
TemporariesOf(u, s) ==
    IF s = <<>> THEN <<>>
    ELSE IF Head(s).node.compilation_unit = u
         THEN <<Head(s)>> \o TemporariesOf(u, Tail(s))
         ELSE TemporariesOf(u, Tail(s))

\* The indices a unit gets when its constructions (those that made the
\* temporaries s) run alone from the counter value c.
RECURSIVE IndicesAlone(_, _)
IndicesAlone(c, s) ==
    IF s = <<>> THEN <<>>
    ELSE LET r == TemporaryVariableInit(c, Head(s).node, <<>>, Head(s).location)
         IN  <<r.tmp.index>> \o IndicesAlone(r.counter, Tail(s))

IndicesIn(s) == [i \in 1..Len(s) |-> s[i].index]
UnitsIn(s) == [i \in 1..Len(s) |-> s[i].node.compilation_unit]

\* C21: constructing a TemporaryVariable on a node of compilation unit U1
\* leaves the counter of every other compilation unit U2 unchanged, so any
\* interleaving of allocations in U1 and U2 gives each unit the same indices
\* it would get when run alone.
C21_UnitsDoNotShareCounters ==
    /\ [][ConstructionStep =>
            \A u \in Units \ {UnitOfNew} : counter'[u] = counter[u]]_vars
    /\ [](\A u \in Units :
            IndicesIn(TemporariesOf(u, temps))
                = IndicesAlone(start[u], TemporariesOf(u, temps)))

\* Allocations of U1 and U2 have alternated, and U2 holds the two indices
\* that follow its own starting counter.
C21_Witness ==
    /\ UnitsIn(temps) = <<"U1", "U2", "U1", "U2">>
    /\ IndicesIn(TemporariesOf("U2", temps)) = <<start["U2"], start["U2"] + 1>>
    /\ counter["U2"] = start["U2"] + 2

(***************************************************************************)
(* slither/utils/using_for.py: the dicts and lists as objects              *)
(***************************************************************************)

\* The list objects and the dict objects that exist before the call.  A dict
\* maps its keys to addresses of list objects, so two dicts, or two keys, may
\* hold the same list.
ListAddresses == {1, 2}
DictAddresses == {1, 2}
HeapDicts == UNION {[D -> ListAddresses] : D \in SUBSET UsingForKeys}

\* line 18 made to extend the list in place (value += uf1[key]).
ConcatInPlace(h, a, r, key) ==
    LET value == h.dicts[r][key]
    IN  [h EXCEPT !.lists[value] = h.lists[value] \o h.lists[h.dicts[a][key]]]

\* line 18: result[key] = value + uf1[key], where + builds a new list object
\* and the assignment stores its address in the dict result.
ConcatIntoResult(h, a, r, key) ==
    LET value == h.dicts[r][key]
        lists == Append(h.lists, h.lists[value] \o h.lists[h.dicts[a][key]])
    IN  [lists |-> lists, dicts |-> [h.dicts EXCEPT ![r][key] = Len(lists)]]

\* lines 16-18: the loop over the items of result, keys being the ones still
\* to visit.
RECURSIVE MergeLoop(_, _, _, _, _)
MergeLoop(h, a, b, r, keys) ==
    IF keys = {} THEN h
    ELSE LET key == CHOOSE k \in keys : TRUE
             visited == IF key \in DOMAIN h.dicts[a] /\ key \in DOMAIN h.dicts[b]
                        THEN ConcatIntoResult(h, a, r, key)
                        ELSE h
         IN  MergeLoop(visited, a, b, r, keys \ {key})

\* merge_using_for(uf1, uf2) on objects: line 15 builds a new dict object
\* holding the list addresses of both operands, the loop follows, and the
\* address of the new dict is returned.
MergeUsingForObjects(h, a, b) ==
    LET result == DictUnion(h.dicts[a], h.dicts[b])
        allocated == [h EXCEPT !.dicts = Append(h.dicts, result)]
        r == Len(allocated.dicts)
    IN  [heap |-> MergeLoop(allocated, a, b, r, DOMAIN result), result |-> r]

\* The table a dict object stands for: its keys with the contents of their
\* lists.
Table(h, d) == [key \in DOMAIN h.dicts[d] |-> h.lists[h.dicts[d][key]]]

InitHeap ==
    /\ ufHeap \in [lists : [ListAddresses -> UsingForItems],
                   dicts : [DictAddresses -> HeapDicts]]
    /\ ufHeapBefore = ufHeap
    /\ ufRefs = <<>>
    /\ IdleUsingFor /\ IdleTemporary /\ IdlePush /\ IdleCall /\ IdleType /\ IdleCtor

\* merge_using_for(a, b), a and b being dict objects (possibly the same one)
MergeObjects(a, b) ==
    LET m == MergeUsingForObjects(ufHeap, a, b)
    IN  /\ ufRefs = <<>>
        /\ ufHeapBefore' = ufHeap
        /\ ufHeap' = m.heap
        /\ ufRefs' = <<a, b, m.result>>
        /\ UNCHANGED OthersThanHeap

NextHeap == \E a, b \in DictAddresses : MergeObjects(a, b)

SpecHeap == InitHeap /\ [][NextHeap]_vars

\* C22: merge_using_for(A, B) leaves both inputs unchanged: after the call A
\* and B have the same key sets and the same list contents as before, also
\* for keys present in both, and the result is a table distinct from A and
\* from B.
C22_MergeLeavesInputsUnchanged ==
    ufRefs # <<>> =>
        /\ \A d \in {ufRefs[1], ufRefs[2]} :
              /\ DOMAIN ufHeap.dicts[d] = DOMAIN ufHeapBefore.dicts[d]
              /\ Table(ufHeap, d) = Table(ufHeapBefore, d)
        /\ ufRefs[3] \notin {ufRefs[1], ufRefs[2]}
        /\ ufRefs[3] \notin DOMAIN ufHeapBefore.dicts

\* Two different dicts that share the key "*" with non-empty lists have been
\* merged: the result holds a longer list under "*", and both inputs read as
\* before.
C22_Witness ==
    /\ ufRefs # <<>>
    /\ ufRefs[1] # ufRefs[2]
    /\ "*" \in DOMAIN ufHeapBefore.dicts[ufRefs[1]]
    /\ "*" \in DOMAIN ufHeapBefore.dicts[ufRefs[2]]
    /\ Table(ufHeapBefore, ufRefs[1])["*"] # <<>>
    /\ Table(ufHeapBefore, ufRefs[2])["*"] # <<>>
    /\ Len(Table(ufHeap, ufRefs[3])["*"]) > Len(Table(ufHeap, ufRefs[2])["*"])
    /\ Table(ufHeap, ufRefs[1]) = Table(ufHeapBefore, ufRefs[1])
    /\ Table(ufHeap, ufRefs[2]) = Table(ufHeapBefore, ufRefs[2])

\* The cases of a variable v outside the four storage cases.
NonStorageCase(v) ==
    LET origin == PointsToOrigin(v)
    IN  \/ v.kind = "LocalVariable" /\ v.location \in {"memory", "calldata", None}
        \/ /\ v.kind = "ReferenceVariable"
           /\ origin.kind \in {"LocalVariable", "TemporaryVariable"}
           /\ origin.location # "storage"
        \/ /\ v.kind = "ReferenceVariable"
           /\ origin.kind \notin {"StateVariable", "LocalVariable", "TemporaryVariable"}
        \/ v.kind = "TemporaryVariable"
        \/ v.kind = "Constant"

\* C23: _is_storage_variable returns false for every variable outside the
\* four storage cases: a local variable with location memory, calldata or
\* unset; a Reference whose resolved origin is a local or temporary with a
\* location other than "storage"; a Reference whose origin is neither a
\* state, local nor temporary variable; a plain TemporaryVariable, even when
\* its own location is "storage"; and constants.
C23_NonStorageClassification ==
    pcPush = "classified" =>
        /\ NonStorageCase(irVar) => ~isStorage
        /\ ~StorageCase(irVar) => ~isStorage
        /\ \A t \in PushTypes :
              irVar = TemporaryVariable("storage", t) => ~isStorage

\* A plain TemporaryVariable with location "storage" has been classified as
\* non-storage.
C23_Witness ==
    /\ pcPush = "classified"
    /\ irVar.kind = "TemporaryVariable"
    /\ irVar.location = "storage"
    /\ ~isStorage

\* Push(...) has been called; its lvalue is no assignable location; its
\* array is no Variable of an array type.
PushCalled == pcPush \in {"constructed", "queried", "AssertionError"}
LvalueRejected ==
    pushArgs.lvalue.kind \notin
        {"StateVariable", "LocalVariable", "TemporaryVariable", "ReferenceVariable"}
ArrayRejected ==
    \/ pushArgs.array.kind \notin VariableClasses
    \/ pushArgs.array.type.k # "ArrayType"

\* C24: constructing a Push fails with an assertion, creating no operation,
\* whenever the lvalue is not a valid assignable location or the array
\* argument is not a Variable whose type is an array type; the variants with
\* and without elem are subject to the same two checks, and no check is made
\* on elem (with both checks passing the Push is made, whatever elem is).
C24_PushConstructionChecks ==
    PushCalled =>
        /\ (LvalueRejected \/ ArrayRejected) =>
              (pcPush = "AssertionError" /\ pushOp = NoPush)
        /\ ~(LvalueRejected \/ ArrayRejected) =>
              (pcPush # "AssertionError" /\ pushOp = pushArgs)

\* A Push without elem, with a valid lvalue, on a state variable of type
\* uint256 has failed, and no operation exists.
C24_Witness ==
    /\ pcPush = "AssertionError"
    /\ ~LvalueRejected
    /\ pushArgs.array = StateVariable(ElementaryType("uint256"))
    /\ pushArgs.elem = NoneObject
    /\ pushOp = NoPush

(***************************************************************************)
(* slither/slithir/variables/temporary.py: the constructor step by step    *)
(***************************************************************************)

\* Two constructor calls without explicit index that run at the same time,
\* each on a node of its own choice.
Callers == {1, 2}

\* A call that has not started: index is the object's _index once line 14
\* has run, loaded the counter value that line 15 has read and not yet
\* written back.
NotStarted(node) == [pc |-> "line 14", node |-> node, index |-> <<>>, loaded |-> <<>>]

InitCtor ==
    /\ counter \in [Units -> 0..MaxStart]
    /\ start = counter
    /\ temps = <<>>
    /\ tempArg = <<>>
    /\ ctor \in [Callers -> {NotStarted(node) : node \in Nodes}]
    /\ IdleUsingFor /\ IdlePush /\ IdleCall /\ IdleType /\ IdleHeap

\* line 14: self._index = node.compilation_unit.counter_slithir_temporary
ReadIndex(p) ==
    /\ ctor[p].pc = "line 14"
    /\ ctor' = [ctor EXCEPT ![p].index = <<counter[CounterOwner(ctor[p].node)]>>,
                            ![p].pc = "line 15"]
    /\ UNCHANGED varsTemporary
    /\ UNCHANGED OthersThanCtor

\* line 15, first half: += reads the counter
LoadCounter(p) ==
    /\ ctor[p].pc = "line 15"
    /\ ctor' = [ctor EXCEPT ![p].loaded = <<counter[CounterOwner(ctor[p].node)]>>,
                            ![p].pc = "line 15 store"]
    /\ UNCHANGED varsTemporary
    /\ UNCHANGED OthersThanCtor

\* line 15, second half: += writes the value it read plus one; lines 18-19
\* complete the object.
StoreCounter(p) ==
    /\ ctor[p].pc = "line 15 store"
    /\ counter' = [counter EXCEPT ![CounterOwner(ctor[p].node)] = ctor[p].loaded[1] + 1]
    /\ temps' = Append(temps, [node |-> ctor[p].node, index |-> ctor[p].index[1],
                               location |-> None])
    /\ ctor' = [ctor EXCEPT ![p].pc = "done"]
    /\ UNCHANGED <<start, tempArg>>
    /\ UNCHANGED OthersThanCtor

NextCtor == \E p \in Callers : ReadIndex(p) \/ LoadCounter(p) \/ StoreCounter(p)

SpecCtor == InitCtor /\ [][NextCtor]_vars

CallsOn(types) == [raised |-> FALSE, calls |-> types]
RaisesItself == [raised |-> TRUE, calls |-> <<>>]

\* get_default_value that synthesizes the elements of a dynamic array too.
RecursiveCallsIntoDynamicArrays(ty) ==
    IF ty.k = "FunctionType" THEN RaisesItself
    ELSE IF ty.k = "ElementaryType" /\ ty.name \in ElementaryKinds THEN CallsOn(<<>>)
    ELSE IF ty.k = "ArrayType" /\ IsDynamicArray(ty) THEN CallsOn(<<ty.of[1]>>)
    ELSE IF ty.k = "ArrayType" /\ IsFixedArray(ty)
        THEN CallsOn(Repeat(ty.of[1], IntOf(LengthValue(ty))))
    ELSE IF ty.k = "UserDefinedType" /\ Declarations[ty.name].kind = "Enum"
        THEN CallsOn(<<>>)
    ELSE IF ty.k = "UserDefinedType" /\ Declarations[ty.name].kind = "Structure"
        THEN CallsOn(FieldTypes(Declarations[ty.name].elems_ordered))
    ELSE IF ty.k = "UserDefinedType" /\ Declarations[ty.name].kind = "Contract"
        THEN CallsOn(<<>>)
    ELSE IF ty.k = "TypeAlias" THEN CallsOn(<<ty.of[1]>>)
    ELSE RaisesItself

\* The calls of get_default_value in the body of get_default_value(ty):
\* line 41 (once per element of a fixed array), line 57 (once per field) and
\* line 74 (the underlying type); the assertions of lines 25 and 78.
RecursiveCalls(ty) ==
    IF ty.k = "FunctionType" THEN RaisesItself
    ELSE IF ty.k = "ElementaryType" /\ ty.name \in ElementaryKinds THEN CallsOn(<<>>)
    ELSE IF ty.k = "ArrayType" /\ IsDynamicArray(ty) THEN CallsOn(<<>>)
    ELSE IF ty.k = "ArrayType" /\ IsFixedArray(ty)
        THEN CallsOn(Repeat(ty.of[1], IntOf(LengthValue(ty))))
    ELSE IF ty.k = "UserDefinedType" /\ Declarations[ty.name].kind = "Enum"
        THEN CallsOn(<<>>)
    ELSE IF ty.k = "UserDefinedType" /\ Declarations[ty.name].kind = "Structure"
        THEN CallsOn(FieldTypes(Declarations[ty.name].elems_ordered))
    ELSE IF ty.k = "UserDefinedType" /\ Declarations[ty.name].kind = "Contract"
        THEN CallsOn(<<>>)
    ELSE IF ty.k = "TypeAlias" THEN CallsOn(<<ty.of[1]>>)
    ELSE RaisesItself

InitRecursion ==
    /\ tyArg = NoType
    /\ tyCall = "none"
    /\ pcType = "start"
    /\ tyResult = NoExpression
    /\ tyStack = <<>>
    /\ IdleUsingFor /\ IdleTemporary /\ IdlePush /\ IdleCall /\ IdleHeap /\ IdleCtor

\* get_default_value(ty) is called: the outermost call is the first to make.
BeginCall(ty) ==
    /\ pcType = "start"
    /\ tyArg' = ty
    /\ tyCall' = "get_default_value"
    /\ pcType' = "running"
    /\ tyStack' = <<ty>>
    /\ UNCHANGED tyResult
    /\ UNCHANGED OthersThanType

\* The next call of get_default_value begins: it raises, which ends the
\* outermost call too, or the calls of its body are the next ones to make.
EnterCall ==
    LET r == RecursiveCalls(Head(tyStack))
    IN  /\ pcType = "running"
        /\ tyStack # <<>>
        /\ IF r.raised
           THEN pcType' = "AssertionError" /\ tyStack' = <<>>
           ELSE pcType' = pcType /\ tyStack' = r.calls \o Tail(tyStack)
        /\ UNCHANGED <<tyArg, tyCall, tyResult>>
        /\ UNCHANGED OthersThanType

\* No call is left to make: get_default_value(tyArg) returns its expression.
ReturnToCaller ==
    /\ pcType = "running"
    /\ tyStack = <<>>
    /\ pcType' = "returned"
    /\ tyResult' = GetDefaultValue(tyArg).value
    /\ UNCHANGED <<tyArg, tyCall, tyStack>>
    /\ UNCHANGED OthersThanType

NextRecursion == (\E ty \in Types : BeginCall(ty)) \/ EnterCall \/ ReturnToCaller

SpecRecursion == InitRecursion /\ [][NextRecursion]_vars

\* The number of calls get_default_value(ty) stands for when the recursion
\* goes into a fixed array's element type (once per element), a structure's
\* field types and an alias's underlying type, and nowhere else.
RECURSIVE CallsFor(_)
SumOfCallsFor(types) ==
    LET RECURSIVE Sum(_)
        Sum(i) == IF i = 0 THEN 0 ELSE CallsFor(types[i]) + Sum(i - 1)
    IN  Sum(Len(types))
CallsFor(ty) ==
    IF ty.k = "ArrayType" /\ ty.length # <<>>
        THEN 1 + ty.length[1] * CallsFor(ty.of[1])
    ELSE IF ty.k = "TypeAlias" THEN 1 + CallsFor(ty.of[1])
    ELSE IF ty.k = "UserDefinedType"
        THEN 1 + SumOfCallsFor(FieldTypes(Declarations[ty.name].elems_ordered))
    ELSE 1

\* C26: get_default_value terminates on every type: it recurses only into a
\* fixed array's element type, a structure's field types and an alias's
\* underlying type, never into a dynamic array's element type, so it
\* finishes, with a value or an assertion failure, also where a structure
\* reaches itself through a dynamic array: every step of a running call
\* either ends it or makes the number of calls still due smaller.
C26_GetDefaultValueTerminates ==
    [][(pcType = "running") =>
          \/ pcType' \in {"returned", "AssertionError"}
          \/ /\ SumOfCallsFor(tyStack') < SumOfCallsFor(tyStack)
             /\ LET ty == Head(tyStack)
                    allowed ==
                        IF ty.k = "ArrayType" /\ ty.length # <<>> THEN {ty.of[1]}
                        ELSE IF ty.k = "TypeAlias" THEN {ty.of[1]}
                        ELSE IF ty.k = "UserDefinedType"
                             THEN {Declarations[ty.name].elems_ordered[i].type :
                                     i \in 1..Len(Declarations[ty.name].elems_ordered)}
                        ELSE {}
                    n == Len(tyStack') - Len(tyStack) + 1
                IN  /\ n >= 0
                    /\ \A i \in 1..n : tyStack'[i] \in allowed
                    /\ SubSeq(tyStack', n + 1, Len(tyStack')) = Tail(tyStack)]_vars

\* The default of the structure Node, which holds a dynamic array of Node,
\* has been returned.
C26_Witness ==
    /\ tyArg = UserDefinedType("Node")
    /\ Declarations["Node"].elems_ordered[2].type = ArrayType(UserDefinedType("Node"), <<>>)
    /\ pcType = "returned"
    /\ tyStack = <<>>
    /\ tyResult.node = "CallExpression"

====
